---- MODULE Spec2Model ----
(***************************************************************************)
(* Model of the filament-color crawl/checkpoint engine                     *)
(* (src/filament_scraper.py): the Record Store merge-upsert                *)
(* (save_filament), the Checkpoint Store (save/load/clear_progress) and    *)
(* the Crawl Driver (SeleniumScraperThread.run with the pause/stop flags); *)
(* and of the colour lookup on the Record Store (src/filament_db.py).      *)
(***************************************************************************)
EXTENDS Integers, Sequences, FiniteSets, TLC

(***************************************************************************)
(* Values.  Python/SQLite values are tagged tuples so that None, strings   *)
(* and integers can be compared with one another: None, Text(s) where s is  *)
(* the sequence of the string's symbols ('' is Text(<<>>)), Num(n).         *)
(***************************************************************************)
None == <<"none">>

Text(s) == <<"str", s>>

Num(n) == <<"int", n>>

\* Python truthiness of a value: None, '' and 0 are falsy.
Truthy(v) == v # None /\ v # Text(<<>>) /\ v # Num(0)

(***************************************************************************)
(* The filaments table: the columns save_filament writes.                  *)
(***************************************************************************)
TextFields ==
    {"name", "manufacturer", "color_name", "material_type", "hex_color",
     "temperature_bed", "temperature_hotend", "notes", "image_url", "td_hex"}

RgbFields == {"rgb_r", "rgb_g", "rgb_b"}

FlagFields == {"is_transparent", "is_glitter", "is_glow"}

\* The keys of field_mapping: the fields the upsert merges.
MergeFields == TextFields \cup RgbFields \cup FlagFields

(***************************************************************************)
(* The dict `data` of a partial record: a value per key it can hold, Absent *)
(* for a key that is not in the dict.                                      *)
(***************************************************************************)
Absent == <<"absent">>

DataKeys == {"url", "id", "tags"} \cup MergeFields

\* seq[index] of a Python list (indices from 0)
At(seq, index) == seq[index + 1]

\* The empty dict.
EmptyDict == [k \in DataKeys |-> Absent]

\* key in d
Has(d, k) == d[k] # Absent

\* d.get(key, default)
GetOr(d, k, default) == IF Has(d, k) THEN d[k] ELSE default

\* d.get(key)
Get(d, k) == GetOr(d, k, None)

\* d[k] = v
Put(d, k, v) == [d EXCEPT ![k] = v]

\* d.update(e)
Update(d, e) == [k \in DataKeys |-> IF Has(e, k) THEN e[k] ELSE d[k]]

(***************************************************************************)
(* Hex colours: '#' followed by six hex digits, as the extractor's regular *)
(* expressions match them (either letter case).                            *)
(***************************************************************************)
HexDigitValue(c) ==
    CASE c = "0" -> 0 [] c = "1" -> 1 [] c = "2" -> 2 [] c = "3" -> 3
      [] c = "4" -> 4 [] c = "5" -> 5 [] c = "6" -> 6 [] c = "7" -> 7
      [] c = "8" -> 8 [] c = "9" -> 9
      [] c \in {"a", "A"} -> 10 [] c \in {"b", "B"} -> 11
      [] c \in {"c", "C"} -> 12 [] c \in {"d", "D"} -> 13
      [] c \in {"e", "E"} -> 14 [] c \in {"f", "F"} -> 15

\* int(s, 16) of a two-digit string
Int16(s) == 16 * HexDigitValue(s[1]) + HexDigitValue(s[2])

RECURSIVE LStripHash(_)
\* str.lstrip('#')
LStripHash(s) ==
    IF s # <<>> /\ Head(s) = "#" THEN LStripHash(Tail(s)) ELSE s

\* scrape_filament_page, "Convertir hex en RGB": adds rgb_r, rgb_g, rgb_b to
\* data when it has a hex_color of six digits.
HexToRgb(data) ==
    IF Has(data, "hex_color")
    THEN LET hex_val == LStripHash(data["hex_color"][2])
         IN  IF Len(hex_val) = 6
             THEN Put(Put(Put(data,
                        "rgb_r", Num(Int16(SubSeq(hex_val, 1, 2)))),
                        "rgb_g", Num(Int16(SubSeq(hex_val, 3, 4)))),
                        "rgb_b", Num(Int16(SubSeq(hex_val, 5, 6))))
             ELSE data
    ELSE data

(***************************************************************************)
(* The Record Store as one sqlite3 connection sees it: the rows of the     *)
(* filaments table in id order (AUTOINCREMENT ids are 1, 2, ...; no row is *)
(* ever deleted) and, per filament id, the tags of the tags table in       *)
(* insertion order.                                                        *)
(***************************************************************************)
EmptyStore == [rows |-> <<>>, tags |-> <<>>]

\* A faulty variant of Existing: the lookup never finds the key.
ExistingNever(c, url) == 0

\* SELECT * FROM filaments WHERE url = ? ; fetchone(): the id of the row, 0
\* when there is none.
Existing(c, url) ==
    IF \E i \in 1..Len(c.rows) : c.rows[i]["url"] = url
    THEN CHOOSE i \in 1..Len(c.rows) : c.rows[i]["url"] = url
    ELSE 0

\* The column values the full UPDATE and the INSERT bind: data.get(f), and
\* data.get(f, 0) for the three flags.
BoundValue(data, f) ==
    IF f \in FlagFields THEN GetOr(data, f, Num(0)) ELSE Get(data, f)

\* A faulty variant of FullUpdateRow: the UPDATE without its last column.
FullUpdateRowWithoutTd(row, data) ==
    [col \in DOMAIN row |->
        IF col \in MergeFields \ {"td_hex"}
        THEN GetOr(data, col, IF col \in FlagFields THEN Num(0) ELSE None)
        ELSE row[col]]

\* save_filament, full_update branch: every merge field is overwritten.
FullUpdateRow(row, data) ==
    [col \in DOMAIN row |->
        IF col \in MergeFields THEN BoundValue(data, col) ELSE row[col]]

\* save_filament, partial branch: "Mettre a jour si le champ existant est
\* vide et le nouveau non".
MergeCondition(existing_val, new_val) ==
    /\ existing_val = None \/ existing_val = Text(<<>>) \/ existing_val = Num(0)
    /\ Truthy(new_val)

\* save_filament, partial branch: the UPDATE of the fields collected in
\* fields_to_update.
PartialUpdateRow(row, data) ==
    [col \in DOMAIN row |->
        IF col \in MergeFields /\ MergeCondition(row[col], Get(data, col))
        THEN Get(data, col)
        ELSE row[col]]

\* save_filament, partial branch: "Garder la valeur existante dans data pour
\* l'affichage".
KeepExistingInData(row, data) ==
    LET kept == {f \in MergeFields :
                    /\ ~MergeCondition(row[f], Get(data, f))
                    /\ Truthy(row[f]) /\ ~Truthy(Get(data, f))}
    IN  [k \in DataKeys |-> IF k \in kept THEN row[k] ELSE data[k]]

\* A faulty variant of InsertedRow: a flag the dict lacks is bound as None.
InsertedRowFlagsUnbound(data) ==
    [col \in {"url"} \cup MergeFields |-> Get(data, col)]

\* save_filament, insertion: the new row.
InsertedRow(data) ==
    [col \in {"url"} \cup MergeFields |->
        IF col = "url" THEN Get(data, "url") ELSE BoundValue(data, col)]

\* A faulty variant of DeleteTags: nothing is deleted.
DeleteTagsNone(tags, filament_id) == tags

\* save_filament, "Supprimer les anciens tags": DELETE FROM tags WHERE
\* filament_id = ?
DeleteTags(tags, filament_id) == [tags EXCEPT ![filament_id] = <<>>]

\* save_filament, "Sauvegarder les nouveaux tags": one INSERT INTO tags per
\* tag of data.get('tags', []).
InsertTags(tags, filament_id, data) ==
    [tags EXCEPT ![filament_id] = @ \o GetOr(data, "tags", <<>>)]

\* The statements of save_filament at which the store can raise.
FailPoints == {"select", "write", "delete_tags", "insert_tags", "commit"}

\* save_filament(conn, data, full_update).  failAt is the statement that
\* raises ("none": no statement does).  The result is the connection's view
\* afterwards (conn), the return value (ret: the filament id, None after an
\* exception), data as the call leaves it, and whether commit() succeeded.
\* The except clause does not roll back: what was executed before the
\* failing statement stays in the connection's open transaction.
SaveFilament(c, data, full_update, failAt) ==
    LET existing == Existing(c, Get(data, "url"))
        filament_id == IF existing # 0 THEN existing ELSE Len(c.rows) + 1
        data1 == IF existing # 0 /\ ~full_update
                 THEN KeepExistingInData(c.rows[existing], data)
                 ELSE data
        rows1 == IF existing = 0 THEN Append(c.rows, InsertedRow(data))
                 ELSE IF full_update
                 THEN [c.rows EXCEPT ![existing] = FullUpdateRow(@, data)]
                 ELSE [c.rows EXCEPT ![existing] = PartialUpdateRow(@, data)]
        tags0 == IF existing = 0 THEN Append(c.tags, <<>>) ELSE c.tags
        deleted == DeleteTags(tags0, filament_id)
        inserted == InsertTags(deleted, filament_id, data)
    IN  CASE failAt = "select" ->
               [conn |-> c, ret |-> None, data |-> data, commit |-> FALSE]
          [] failAt = "write" ->
               [conn |-> c, ret |-> None, data |-> data1, commit |-> FALSE]
          [] failAt = "delete_tags" ->
               [conn |-> [rows |-> rows1, tags |-> tags0],
                ret |-> None, data |-> data1, commit |-> FALSE]
          [] failAt = "insert_tags" ->
               [conn |-> [rows |-> rows1, tags |-> deleted],
                ret |-> None, data |-> data1, commit |-> FALSE]
          [] failAt = "commit" ->
               [conn |-> [rows |-> rows1, tags |-> inserted],
                ret |-> None, data |-> data1, commit |-> FALSE]
          [] OTHER ->
               [conn |-> [rows |-> rows1, tags |-> inserted],
                ret |-> Num(filament_id), data |-> data1, commit |-> TRUE]

(***************************************************************************)
(* The remote source.  A page is what the extraction heuristics of         *)
(* scrape_filament_page find on it (found: a dict of the fields found,     *)
(* before the hex-to-RGB conversion and the name fallback), or broken when *)
(* loading or parsing it raises.  Pages is the bounded set of pages: a     *)
(* name, a colour and a block of details (the other fields and the tags,   *)
(* in two variants), each optional.                                        *)
(***************************************************************************)

NameChoices == {Absent, Text(<<>>), Text(<<"Red">>)}

Details1 ==
    [EmptyDict EXCEPT
        !["manufacturer"] = Text(<<"X">>), !["color_name"] = Text(<<"red">>),
        !["material_type"] = Text(<<"PLA">>),
        !["temperature_bed"] = Text(<<"60">>),
        !["temperature_hotend"] = Text(<<"210">>),
        !["notes"] = Text(<<"matte">>), !["image_url"] = Text(<<"/img/1.png">>),
        !["td_hex"] = Text(<<"#102030">>), !["is_transparent"] = Num(1),
        !["tags"] = <<"pla", "matte">>]

Details2 ==
    [EmptyDict EXCEPT
        !["manufacturer"] = Text(<<"Y">>), !["color_name"] = Text(<<"blue">>),
        !["material_type"] = Text(<<"PETG">>),
        !["temperature_bed"] = Text(<<"80">>),
        !["temperature_hotend"] = Text(<<"240">>),
        !["notes"] = Text(<<"silk">>), !["image_url"] = Text(<<"/img/2.png">>),
        !["td_hex"] = Text(<<"2.5">>), !["is_glitter"] = Num(1),
        !["is_glow"] = Num(1), !["tags"] = <<"silk">>]

DetailChoices == {EmptyDict, Details1, Details2}

Black == Text(<<"#", "0", "0", "0", "0", "0", "0">>)

Orange == Text(<<"#", "F", "F", "8", "0", "0", "0">>)

HexChoices == {Absent, Black, Orange}

\* The page on which the heuristics find this name, this colour and these
\* details; data['tags'] is set on every page, to [] when it has no tag.
PageWith(n, h, d) ==
    [broken |-> FALSE,
     found |-> [d EXCEPT !["name"] = n, !["hex_color"] = h,
                         !["tags"] = GetOr(d, "tags", <<>>)]]

BrokenPage == [broken |-> TRUE, found |-> EmptyDict]

Pages ==
    {PageWith(n, h, d) :
        n \in NameChoices, h \in HexChoices, d \in DetailChoices}

\* scrape_filament_page, "Dernier fallback pour le nom": a missing or empty
\* name is built from the manufacturer and the colour name.
NameFallback(data) ==
    IF Truthy(Get(data, "name")) THEN data
    ELSE LET m == IF Truthy(Get(data, "manufacturer"))
                  THEN <<data["manufacturer"][2]>> ELSE <<>>
             c == IF Truthy(Get(data, "color_name"))
                  THEN <<data["color_name"][2]>> ELSE <<>>
             parts == m \o c
         IN  IF parts = <<>> THEN data
             ELSE IF Len(parts) = 1 THEN Put(data, "name", Text(parts[1]))
             ELSE Put(data, "name", Text(parts[1] \o <<" - ">> \o parts[2]))

\* scrape_filament_page(url) returns None: the page raised.
ScrapeFails(page) == page.broken

\* scrape_filament_page(url) on a page that does not raise: the partial
\* record.
ScrapeFilamentPage(url, page) ==
    NameFallback(HexToRgb(
        Update([EmptyDict EXCEPT !["url"] = Text(<<url>>)], page.found)))

(***************************************************************************)
(* The Checkpoint Store: the progress file.  NoFile when it does not       *)
(* exist, else FileWith(text), text being its content as a sequence of     *)
(* JSON tokens: the text json.dump writes for the dict of save_progress    *)
(* (the timestamp is not modelled), or nothing when a write failed after   *)
(* open(PROGRESS_FILE, 'w') had emptied the file (Truncated).  In memory   *)
(* the progress is the dict Checkpoint(urls, index).                       *)
(***************************************************************************)
NoFile == <<"nofile">>

FileWith(text) == <<"file", text>>

Truncated == FileWith(<<>>)

Checkpoint(urls_, index_) == <<"json", urls_, index_>>

CkUrls(ck) == ck[2]

CkIndex(ck) == ck[3]

\* The tokens of a JSON text: a string, a number, a punctuation mark.
JsonString(s) == <<"s", s>>

JsonNumber(n) == <<"n", n>>

JsonPunct(p) == <<"p", p>>

\* json.dump(data, f) of the progress dict:
\* {"urls": [...], "index": N}
JsonDump(data) ==
    <<JsonPunct("{"), JsonString("urls"), JsonPunct("[")>>
    \o [k \in 1..Len(CkUrls(data)) |-> JsonString(CkUrls(data)[k])]
    \o <<JsonPunct("]"), JsonString("index"), JsonNumber(CkIndex(data)),
         JsonPunct("}")>>

\* json.load(f): the dict of a text of that form; None stands for the
\* exception json.load raises on any other text.
JsonLoad(text) ==
    LET n == Len(text)
    IN  IF /\ n >= 7
           /\ text[1] = JsonPunct("{") /\ text[2] = JsonString("urls")
           /\ text[3] = JsonPunct("[")
           /\ \A k \in 4..(n - 4) : text[k][1] = "s"
           /\ text[n - 3] = JsonPunct("]")
           /\ text[n - 2] = JsonString("index")
           /\ text[n - 1][1] = "n"
           /\ text[n] = JsonPunct("}")
        THEN Checkpoint([k \in 1..(n - 7) |-> text[k + 3][2]],
                        text[n - 1][2])
        ELSE None

\* A faulty variant of SaveProgress: it saves the index of the next key.
SaveProgressNextIndex(file_, current_urls_, current_index_) ==
    IF current_urls_ # <<>>
    THEN FileWith(JsonDump(Checkpoint(current_urls_, current_index_ + 1)))
    ELSE file_

\* A faulty variant of SaveProgress: it saves the keys that remain.
SaveProgressRemaining(file_, current_urls_, current_index_) ==
    IF current_urls_ # <<>>
    THEN FileWith(JsonDump(Checkpoint(
            SubSeq(current_urls_, current_index_ + 1, Len(current_urls_)),
            current_index_)))
    ELSE file_

\* A faulty variant of SaveProgress: it saves the index of the key before.
SaveProgressPreviousIndex(file_, current_urls_, current_index_) ==
    IF current_urls_ # <<>>
    THEN FileWith(JsonDump(Checkpoint(current_urls_, current_index_ - 1)))
    ELSE file_

\* save_progress(): the file afterwards.  An empty current_urls writes
\* nothing.
SaveProgress(file_, current_urls_, current_index_) ==
    IF current_urls_ # <<>>
    THEN FileWith(JsonDump(Checkpoint(current_urls_, current_index_)))
    ELSE file_

\* load_progress(): the dict of the file, None when there is no file or its
\* content does not parse.
LoadProgress(file_) ==
    IF file_ = NoFile THEN None ELSE JsonLoad(file_[2])

\* clear_progress()
ClearProgress(file_) == NoFile

(***************************************************************************)
(* The crawl's remote source: NumKeys item keys, each with a fixed page.   *)
(***************************************************************************)
NumKeys == 2

KeyNames == <<"A", "B", "C", "D", "E", "F">>

Keys == {KeyNames[k] : k \in 1..NumKeys}

\* get_filament_list: max_no_change
MaxNoChange == 5

\* list(urls): the orders in which a set can be listed.
Orders(set) ==
    {seq \in [1..Cardinality(set) -> set] :
        \A a, b \in 1..Cardinality(set) : a # b => seq[a] # seq[b]}

\* A faulty variant of IsEntryComplete: every key that has a record is
\* complete.
IsEntryCompleteIfExists(c, url) == Existing(c, Text(<<url>>)) # 0

\* is_entry_complete(conn, url)
IsEntryComplete(c, url) ==
    LET e == Existing(c, Text(<<url>>))
    IN  /\ e # 0
        /\ Truthy(c.rows[e]["name"])
        /\ Truthy(c.rows[e]["manufacturer"])
        /\ Truthy(c.rows[e]["hex_color"])

(***************************************************************************)
(* State.                                                                  *)
(***************************************************************************)
VARIABLES
    conn,            \* the Record Store as the open connection sees it
    disk,            \* the Record Store as committed
    call,            \* the save_filament call that has just returned (SpecStore)
    issued,          \* per key, the first id save_filament returned for it
                     \* (SpecStore); 0 when it has returned none
    file,            \* the progress file
    \* MainWindow
    saved_progress,  \* self.saved_progress
    scrape_btn,      \* the buttons are enabled
    pause_btn,
    stop_btn,
    handled,         \* the worker's terminal signal has reached its slot
    \* SeleniumScraperThread (self.scraper_thread) and the locals of run()
    pc,              \* where the worker is in run(); "none": no thread yet
    running,
    paused_flag,
    driver,          \* "none", "on", "quit"
    resume_data,
    full_update,
    current_urls,
    current_index,
    urls_to_scrape,
    i,               \* the loop variable of run()
    count,
    skipped,
    urls,            \* get_filament_list: the set of URLs
    last_count,
    no_change_count,
    outcome,         \* the terminal signal the worker has emitted
    \* history
    processed,       \* the indices this run has processed, in order
    exhausted,       \* this run's for loop ran to the end of the sequence
    stop_requested,  \* stop() was called on this run
    wrote,           \* this run has written the progress file
    series,          \* the sequence being crawled and the store it started from
    file0,           \* the progress file as this run found it
    failures,        \* the save_filament calls of this run in which a statement raised
    item,            \* the last pass through the body of the for loop
    listing,         \* get_filament_list: the polls made and what they yielded
    site             \* the remote source: which of its pages cannot be fetched

storeVars == <<conn, disk, call, issued>>

uiVars == <<saved_progress, scrape_btn, pause_btn, stop_btn, handled>>

flagVars == <<running, paused_flag>>

threadVars ==
    <<pc, driver, resume_data, full_update, current_urls, current_index,
      urls_to_scrape, i, count, skipped, urls, last_count, no_change_count,
      outcome>>

historyVars ==
    <<processed, exhausted, stop_requested, wrote, series, file0, failures,
      item, listing>>

crawlVars == <<file, uiVars, flagVars, threadVars, historyVars>>

vars == <<storeVars, crawlVars, site>>

\* The remote sources: the page of every second key raises when it is
\* fetched ("broken"), or the page of every third key does ("incomplete").
Sites == {"broken", "incomplete"}

\* The page of a key.  The first key's page is complete (name, manufacturer
\* and colour); of the next two keys, one has a page without name and
\* manufacturer and the other a page that raises; and so on in turn.
SitePage(url) ==
    LET k == CHOOSE n \in 1..Len(KeyNames) : KeyNames[n] = url
    IN  CASE k % 3 = 1 -> PageWith(Text(<<"Red">>), Orange, Details1)
          [] (k % 3 = 2) = (site = "incomplete") ->
                PageWith(Absent, Black, EmptyDict)
          [] OTHER -> BrokenPage

NoCall == [op |-> "none"]

NoOutcome == <<"none">>

NoSeries ==
    [ok |-> FALSE, urls |-> <<>>, base |-> EmptyStore, full |-> FALSE,
     below |-> TRUE]

NoItem == [op |-> "none"]

\* No poll made yet.  regular: no poll has raised and every poll that
\* yielded a new key came before every poll that yielded none; while that
\* is so, polls and yields count the polls made and those that yielded a
\* new key, and yielded is the set of keys the polls showed.  quiet counts
\* the polls made since the last one in which the set of keys grew.
NoListing ==
    [regular |-> TRUE, polls |-> 0, yields |-> 0, yielded |-> {},
     quiet |-> 0]

\* The listing of a source that is not regular: nothing is counted.
Irregular ==
    [regular |-> FALSE, polls |-> 0, yields |-> 0, yielded |-> {},
     quiet |-> 0]

\* MainWindow.__init__ on a fresh installation: no database row, no progress
\* file, no thread.
InitCrawl ==
    /\ file = NoFile
    /\ saved_progress = None
    /\ scrape_btn = TRUE /\ pause_btn = FALSE /\ stop_btn = FALSE
    /\ handled = TRUE
    /\ pc = "none"
    /\ running = FALSE /\ paused_flag = FALSE
    /\ driver = "none"
    /\ resume_data = None
    /\ full_update = FALSE
    /\ current_urls = <<>> /\ current_index = 0
    /\ urls_to_scrape = <<>> /\ i = 0 /\ count = 0 /\ skipped = 0
    /\ urls = {} /\ last_count = 0 /\ no_change_count = 0
    /\ outcome = NoOutcome
    /\ processed = <<>> /\ exhausted = FALSE /\ stop_requested = FALSE
    /\ wrote = FALSE
    /\ series = NoSeries
    /\ file0 = NoFile
    /\ failures = <<>>
    /\ item = NoItem
    /\ listing = NoListing

Urls == {"A", "B"}

\* No key has been given an id.
NoneIssued == [url \in Urls |-> 0]

\* The pages each key is upserted from: every page for "A", one for "B".
PagesOf(url) ==
    IF url = "A" THEN Pages
    ELSE {PageWith(Text(<<"Green">>), Orange, Details2)}

(***************************************************************************)
(* The Record Store on its own: any sequence of save_filament calls on one *)
(* connection, for any key, partial record and mode.                       *)
(***************************************************************************)
\* The outcomes of a call in SpecStore: it succeeds, or the store is
\* unavailable and its first statement raises.
StoreFailPoints == {"none", "select"}

InitStore ==
    /\ conn = EmptyStore
    /\ disk = EmptyStore
    /\ call = NoCall
    /\ issued = NoneIssued
    /\ InitCrawl
    /\ site = "incomplete"

\* One call save_filament(conn, data, full_update), data being what the
\* extractor makes of a page.
SaveCallOf(url, page, full, failAt) ==
    LET data == ScrapeFilamentPage(url, page)
        r == SaveFilament(conn, data, full, failAt)
    IN  /\ conn' = r.conn
        /\ disk' = IF r.commit THEN r.conn ELSE disk
        /\ call' = [op |-> "save", url |-> url, data |-> data,
                    full_update |-> full, failAt |-> failAt,
                    before |-> conn, ret |-> r.ret,
                    data_after |-> r.data]
        /\ issued' = IF r.ret # None /\ issued[url] = 0
                      THEN [issued EXCEPT ![url] = r.ret[2]]
                      ELSE issued
        /\ UNCHANGED crawlVars
        /\ UNCHANGED site

\* save_filament called for any key, page of the key and mode.
SaveCall ==
    /\ call.op = "none"
    /\ \E url \in Urls, full \in BOOLEAN, failAt \in StoreFailPoints :
         \E page \in PagesOf(url) : SaveCallOf(url, page, full, failAt)

\* The caller takes the result.
SaveReturn ==
    /\ call.op = "save"
    /\ call' = NoCall
    /\ UNCHANGED <<conn, disk, issued, crawlVars>>
    /\ UNCHANGED site

NextStore == SaveCall \/ SaveReturn

SpecStore == InitStore /\ [][NextStore]_vars

(***************************************************************************)
(* The Record Store with a store that can fail: any sequence of            *)
(* save_filament calls on one connection in which any statement of any     *)
(* call can raise, for two keys and a few pages.                           *)
(***************************************************************************)

\* The pages the keys are upserted from: two for "A" (with a name, a
\* colour, details and tags, and without any), one for "B".
FewPagesOf(url) ==
    IF url = "A"
    THEN {PageWith(Text(<<"Red">>), Black, Details1),
          PageWith(Absent, Absent, EmptyDict)}
    ELSE {PageWith(Text(<<"Green">>), Orange, Details2)}

\* save_filament called for any key, page and mode, no statement raising or
\* any one of them.
SaveFailingCall ==
    /\ call.op = "none"
    /\ \E url \in Urls, full \in BOOLEAN, failAt \in {"none"} \cup FailPoints :
         \E page \in FewPagesOf(url) : SaveCallOf(url, page, full, failAt)

NextStoreFail == SaveFailingCall \/ SaveReturn

SpecStoreFail == InitStore /\ [][NextStoreFail]_vars

(***************************************************************************)
(* The Checkpoint Store on its own: any sequence of save_progress,         *)
(* load_progress and clear_progress calls.  call is the last call made and *)
(* saved_progress what the last load_progress returned.                    *)
(***************************************************************************)
\* The key sequences a thread can hold in current_urls: the lists of the
\* sets of keys.
KeySequences == UNION {Orders(set) : set \in SUBSET Keys}

\* save_progress() of a thread whose current_urls and current_index are S
\* and c; the write can raise after the file was opened.
SaveProgressCall ==
    /\ \E S \in KeySequences, c \in 0..NumKeys :
          \/ /\ c <= Len(S)
             /\ file' = SaveProgress(file, S, c)
             /\ call' = [op |-> "save_progress", urls |-> S, index |-> c,
                         returned |-> TRUE]
          \/ /\ S # <<>> /\ c = 0
             /\ file' = Truncated
             /\ call' = [op |-> "save_progress", urls |-> S, index |-> c,
                         returned |-> FALSE]
    /\ UNCHANGED <<conn, disk, issued, saved_progress, scrape_btn, pause_btn,
                   stop_btn, handled, flagVars, threadVars, historyVars,
                   site>>

\* load_progress(), as check_saved_progress calls it.
LoadProgressCall ==
    /\ call.op # "load_progress"
    /\ saved_progress' = LoadProgress(file)
    /\ call' = [op |-> "load_progress", after |-> call]
    /\ UNCHANGED <<conn, disk, issued, file, scrape_btn, pause_btn, stop_btn,
                   handled, flagVars, threadVars, historyVars, site>>

\* clear_progress()
ClearProgressCall ==
    /\ file' = ClearProgress(file)
    /\ call' = [op |-> "clear_progress", before |-> file]
    /\ UNCHANGED <<conn, disk, issued, saved_progress, scrape_btn, pause_btn,
                   stop_btn, handled, flagVars, threadVars, historyVars,
                   site>>

NextProgress == SaveProgressCall \/ LoadProgressCall \/ ClearProgressCall

SpecProgress == InitStore /\ [][NextProgress]_vars

(***************************************************************************)
(* The colour lookup of src/filament_db.py on the Record Store: FilamentDB  *)
(* loads the committed rows in id order and finds the filament nearest to a *)
(* colour given as a triple or as a hex string.                             *)
(***************************************************************************)
\* A loaded filament: dict(row), the id being the row's position.
Filament(id, row) == <<"dict", id, row>>

\* _load_database: SELECT * FROM filaments ORDER BY id
LoadDatabase(c) == [n \in 1..Len(c.rows) |-> Filament(n, c.rows[n])]

\* float('inf')
Infinity == <<"inf">>

\* A finite distance.  math.sqrt is strictly increasing and gives different
\* floats for the different integers it is applied to here, so that the
\* distance is held as the integer under the root.
Float(squared) == <<"float", squared>>

\* distance < min_distance
Less(distance, min_distance) ==
    min_distance = Infinity \/ distance[2] < min_distance[2]

\* math.sqrt((r - fr) ** 2 + (g - fg) ** 2 + (b - fb) ** 2)
Distance(r, g, b, fr, fg, fb) ==
    Float((r - fr) * (r - fr) + (g - fg) * (g - fg) + (b - fb) * (b - fb))

RECURSIVE FindClosestLoop(_, _, _, _, _, _, _)
\* find_closest_color: the for loop from the k-th filament on.
FindClosestLoop(filaments, k, closest, min_distance, r, g, b) ==
    IF k > Len(filaments) THEN closest
    ELSE LET filament == filaments[k]
             fr == filament[3]["rgb_r"]
             fg == filament[3]["rgb_g"]
             fb == filament[3]["rgb_b"]
         IN  IF fr = None \/ fg = None \/ fb = None
             THEN FindClosestLoop(filaments, k + 1, closest, min_distance,
                                  r, g, b)
             ELSE LET distance == Distance(r, g, b, fr[2], fg[2], fb[2])
                  IN  IF Less(distance, min_distance)
                      THEN FindClosestLoop(filaments, k + 1, filament,
                                           distance, r, g, b)
                      ELSE FindClosestLoop(filaments, k + 1, closest,
                                           min_distance, r, g, b)

\* A faulty variant of FindClosestColor: the last of the nearest filaments
\* is returned (<= for <).
RECURSIVE FindClosestLast(_, _, _, _, _, _, _)
FindClosestLast(filaments, k, closest, min_distance, r, g, b) ==
    IF k > Len(filaments) THEN closest
    ELSE LET filament == filaments[k]
             fr == filament[3]["rgb_r"]
             fg == filament[3]["rgb_g"]
             fb == filament[3]["rgb_b"]
         IN  IF fr = None \/ fg = None \/ fb = None
             THEN FindClosestLast(filaments, k + 1, closest, min_distance,
                                  r, g, b)
             ELSE LET distance == Distance(r, g, b, fr[2], fg[2], fb[2])
                  IN  IF \/ Less(distance, min_distance)
                         \/ distance = min_distance
                      THEN FindClosestLast(filaments, k + 1, filament,
                                           distance, r, g, b)
                      ELSE FindClosestLast(filaments, k + 1, closest,
                                           min_distance, r, g, b)

FindClosestColorLast(filaments, r, g, b) ==
    IF filaments = <<>> THEN None
    ELSE FindClosestLast(filaments, 1, None, Infinity, r, g, b)

\* find_closest_color(r, g, b): the nearest loaded filament, None when there
\* is none.
FindClosestColor(filaments, r, g, b) ==
    IF filaments = <<>> THEN None
    ELSE FindClosestLoop(filaments, 1, None, Infinity, r, g, b)

RECURSIVE FindNResults(_, _, _, _, _)
\* find_n_closest_colors: the for loop from the k-th filament on, the pairs
\* (filament, distance) it appends to results.
FindNResults(filaments, k, r, g, b) ==
    IF k > Len(filaments) THEN <<>>
    ELSE LET filament == filaments[k]
             fr == filament[3]["rgb_r"]
             fg == filament[3]["rgb_g"]
             fb == filament[3]["rgb_b"]
         IN  IF fr = None \/ fg = None \/ fb = None
             THEN FindNResults(filaments, k + 1, r, g, b)
             ELSE <<<<filament, Distance(r, g, b, fr[2], fg[2], fb[2])>>>>
                     \o FindNResults(filaments, k + 1, r, g, b)

\* A faulty variant of InsertByDistance: the pair goes before the pairs at
\* its distance (a sort that is not stable).
InsertBeforeEqual(sorted, pair) ==
    LET k == Cardinality({n \in 1..Len(sorted) :
                             sorted[n][2][2] < pair[2][2]})
    IN  SubSeq(sorted, 1, k) \o <<pair>> \o SubSeq(sorted, k + 1, Len(sorted))

\* One pair put into a sorted list by its distance.  list.sort is stable:
\* the pair goes after the pairs at its distance that came before it.
InsertByDistance(sorted, pair) ==
    LET k == Cardinality({n \in 1..Len(sorted) :
                             sorted[n][2][2] <= pair[2][2]})
    IN  SubSeq(sorted, 1, k) \o <<pair>> \o SubSeq(sorted, k + 1, Len(sorted))

RECURSIVE SortByDistance(_)
\* results.sort(key=lambda x: x[1])
SortByDistance(results) ==
    IF results = <<>> THEN <<>>
    ELSE InsertByDistance(
             SortByDistance(SubSeq(results, 1, Len(results) - 1)),
             results[Len(results)])

\* results[:n]
Slice(results, n) ==
    IF n >= 0
    THEN SubSeq(results, 1, IF n < Len(results) THEN n ELSE Len(results))
    ELSE SubSeq(results, 1,
                IF Len(results) + n > 0 THEN Len(results) + n ELSE 0)

\* find_n_closest_colors(r, g, b, n): the n nearest loaded filaments with
\* their distances.
FindNClosestColors(filaments, r, g, b, n) ==
    Slice(SortByDistance(FindNResults(filaments, 1, r, g, b)), n)

\* raise ValueError(...)
ValueError == <<"raise", "ValueError">>

\* find_closest_color_hex: the triple it decodes a string of six digits to.
HexTriple(hex_color) ==
    LET h == LStripHash(hex_color)
    IN  <<Int16(SubSeq(h, 1, 2)), Int16(SubSeq(h, 3, 4)),
          Int16(SubSeq(h, 5, 6))>>

\* find_closest_color_hex(hex_color)
FindClosestColorHex(filaments, hex_color) ==
    IF Len(LStripHash(hex_color)) # 6 THEN ValueError
    ELSE FindClosestColor(filaments, HexTriple(hex_color)[1],
                          HexTriple(hex_color)[2], HexTriple(hex_color)[3])

\* Two more colours a page can show: one in lower-case digits, one next to
\* pure red.
OrangeLower == Text(<<"#", "f", "f", "8", "0", "0", "0">>)

Red254 == Text(<<"#", "F", "E", "0", "0", "0", "0">>)

ColourChoices == {Absent, Black, Orange, OrangeLower, Red254}

\* The strings find_closest_color_hex is called with: '#RRGGBB', 'RRGGBB'
\* and one that is too short.
HexInputs ==
    {Black[2], Orange[2], OrangeLower[2], Tail(Red254[2]),
     <<"#", "F", "F", "F">>}

\* The triples find_closest_color is called with.
Triples == {0, 127, 255} \X {0, 128} \X {0, 255}

\* The scraper adds a key from a page that shows one of the colours.
SaveColourCall ==
    /\ call.op = "none"
    /\ \E url \in Keys, h \in ColourChoices, full \in BOOLEAN :
          LET page == PageWith(Text(<<"Red">>), h, EmptyDict)
              r == SaveFilament(conn, ScrapeFilamentPage(url, page), full,
                                "none")
          IN  /\ Existing(conn, Text(<<url>>)) = 0
              /\ conn' = r.conn
              /\ disk' = r.conn
    /\ UNCHANGED <<call, issued, crawlVars, site>>

\* FilamentDB(db_path).find_closest_color(r, g, b)
FindClosestColorCall ==
    /\ call.op = "none"
    /\ \E t \in Triples :
          call' = [op |-> "find_closest_color",
                   filaments |-> LoadDatabase(disk),
                   r |-> t[1], g |-> t[2], b |-> t[3],
                   ret |-> FindClosestColor(LoadDatabase(disk),
                                            t[1], t[2], t[3])]
    /\ UNCHANGED <<conn, disk, issued, crawlVars, site>>

\* FilamentDB(db_path).find_closest_color_hex(hex_color); rgb are its
\* locals r, g, b.
FindClosestColorHexCall ==
    /\ call.op = "none"
    /\ \E hex_color \in HexInputs :
          call' = [op |-> "find_closest_color_hex",
                   hex_color |-> hex_color,
                   ret |-> FindClosestColorHex(LoadDatabase(disk),
                                               hex_color),
                   rgb |-> IF Len(LStripHash(hex_color)) = 6
                           THEN HexTriple(hex_color) ELSE <<>>]
    /\ UNCHANGED <<conn, disk, issued, crawlVars, site>>

\* The numbers of results find_n_closest_colors is asked for.
Counts == 0..3

\* FilamentDB(db_path).find_n_closest_colors(r, g, b, n)
FindNClosestColorsCall ==
    /\ call.op = "none"
    /\ \E t \in Triples, n \in Counts :
          call' = [op |-> "find_n_closest_colors",
                   filaments |-> LoadDatabase(disk),
                   r |-> t[1], g |-> t[2], b |-> t[3], n |-> n,
                   ret |-> FindNClosestColors(LoadDatabase(disk),
                                              t[1], t[2], t[3], n)]
    /\ UNCHANGED <<conn, disk, issued, crawlVars, site>>

\* The caller takes the result.
FindReturn ==
    /\ call.op \in {"find_closest_color", "find_closest_color_hex",
                  "find_n_closest_colors"}
    /\ call' = NoCall
    /\ UNCHANGED <<conn, disk, issued, crawlVars, site>>

NextColour ==
    \/ SaveColourCall
    \/ FindClosestColorCall
    \/ FindClosestColorHexCall
    \/ FindNClosestColorsCall
    \/ FindReturn

SpecColour == InitStore /\ [][NextColour]_vars

(***************************************************************************)
(* The crawl: the main window's buttons and slots, and the worker thread.  *)
(***************************************************************************)
\* QThread.isRunning() of self.scraper_thread
IsRunning == pc \notin {"none", "done"}

\* The position of the worker after error.emit in the except clause of
\* run(): with a driver held it has driver.quit() to execute ("quit"),
\* without one run() has returned ("done").
AfterError(driver_) == IF driver_ = "on" THEN "quit" ELSE "done"

\* A faulty variant of StartIndex: it resumes after the saved index.
StartIndexAfter(resume_data_) == CkIndex(resume_data_) + 1

\* run(): start_index = self.resume_data["index"]
StartIndex(resume_data_) == CkIndex(resume_data_)

\* start_scraping(resume_data): the buttons, and a new SeleniumScraperThread
\* is constructed and started.
StartScraping(resume_data_, full_update_) ==
    /\ saved_progress' = None
    /\ scrape_btn' = FALSE /\ pause_btn' = TRUE /\ stop_btn' = TRUE
    /\ running' = TRUE /\ paused_flag' = FALSE
    /\ driver' = "none"
    /\ resume_data' = resume_data_
    /\ full_update' = full_update_
    /\ current_urls' = <<>> /\ current_index' = 0
    /\ urls_to_scrape' = <<>> /\ i' = 0 /\ count' = 0 /\ skipped' = 0
    /\ urls' = {} /\ last_count' = 0 /\ no_change_count' = 0
    /\ outcome' = NoOutcome
    /\ pc' = "start"
    /\ processed' = <<>> /\ exhausted' = FALSE /\ stop_requested' = FALSE
    /\ wrote' = FALSE
    /\ file0' = file
    /\ failures' = <<>>
    /\ item' = NoItem
    /\ listing' = NoListing
    /\ UNCHANGED <<storeVars, file, handled, series>>
    /\ UNCHANGED site

\* The scrape button: start_scraping() without resume data, the question
\* answered with yes; the Full Update box is checked or not.
ClickScrape ==
    /\ scrape_btn
    /\ \E full_update_ \in BOOLEAN : StartScraping(None, full_update_)

\* The pause/resume button, on_pause_resume_clicked: resume from the saved
\* progress when no worker runs, pause() the worker that runs.
ClickPauseResume ==
    /\ pause_btn
    /\ \/ /\ saved_progress # None /\ ~IsRunning
          /\ \E full_update_ \in BOOLEAN :
                StartScraping(saved_progress, full_update_)
       \/ /\ ~(saved_progress # None /\ ~IsRunning)
          /\ IsRunning
          /\ paused_flag' = TRUE
          /\ running' = FALSE
          /\ UNCHANGED <<storeVars, file, uiVars, threadVars, historyVars,
                         site>>

\* The stop button, stop_scraping, the question answered with yes: stop()
\* of the thread, which also quits the driver it holds.
ClickStop ==
    /\ stop_btn
    /\ pc # "none"
    /\ running' = FALSE
    /\ driver' = IF driver = "on" THEN "quit" ELSE driver
    /\ stop_requested' = TRUE
    /\ UNCHANGED <<storeVars, file, uiVars, paused_flag, pc, resume_data,
                   full_update, current_urls, current_index, urls_to_scrape,
                   i, count, skipped, urls, last_count, no_change_count,
                   outcome, processed, exhausted, wrote, series, file0,
                   failures, item, listing>>
    /\ UNCHANGED site

\* update_pause_button() once self.saved_progress is saved_progress_
PauseButtonAfter(saved_progress_) ==
    IF saved_progress_ # None THEN TRUE
    ELSE IF ~IsRunning THEN FALSE ELSE pause_btn

\* The slots on_scrape_finished, on_scrape_paused and on_scrape_error, run
\* by the main thread when the worker's terminal signal is delivered.
HandleSignal ==
    /\ ~handled
    /\ handled' = TRUE
    /\ scrape_btn' = TRUE
    /\ stop_btn' = FALSE
    /\ saved_progress' =
          IF outcome[1] = "finished" THEN None ELSE LoadProgress(file)
    /\ pause_btn' = PauseButtonAfter(saved_progress')
    /\ UNCHANGED <<storeVars, file, flagVars, threadVars, historyVars>>
    /\ UNCHANGED site

\* A faulty variant of EmitError: the except clause clears the progress.
EmitErrorClearingProgress(cause, driver_) ==
    /\ outcome' = <<"error", cause>>
    /\ handled' = FALSE
    /\ driver' = driver_
    /\ file' = ClearProgress(file)
    /\ pc' = AfterError(driver_)

\* A faulty variant of EmitError: after emitting error the worker goes on to
\* the end of run() instead of leaving it.
EmitErrorFallingThrough(cause, driver_) ==
    /\ outcome' = <<"error", cause>>
    /\ handled' = FALSE
    /\ driver' = IF driver_ = "on" THEN "quit" ELSE driver_
    /\ file' = file
    /\ pc' = "exit"

\* The except clause of run() emits error with a diagnostic (cause) and
\* leaves the progress file alone; the driver the worker holds (driver_) is
\* still to be quit.
EmitError(cause, driver_) ==
    /\ outcome' = <<"error", cause>>
    /\ handled' = FALSE
    /\ driver' = driver_
    /\ file' = file
    /\ pc' = AfterError(driver_)

\* What can raise before the loop: setup_driver() (no driver is held then),
\* sqlite3.connect(), and driver.get(LIBRARY_URL) of get_filament_list.
SetupFailures == {"driver", "connect", "list"}

\* run(): setup_driver() and sqlite3.connect(); then the resume data is
\* taken, or the list page is opened for discovery.
Setup ==
    /\ pc = "start"
    /\ \/ /\ \E cause \in SetupFailures :
                /\ cause = "list" => resume_data = None
                /\ EmitError(cause, IF cause = "driver" THEN driver ELSE "on")
          /\ UNCHANGED <<storeVars, saved_progress, scrape_btn,
                         pause_btn, stop_btn, flagVars, resume_data,
                         full_update, current_urls, current_index,
                         urls_to_scrape, i, count, skipped, urls, last_count,
                         no_change_count, historyVars>>
       \/ /\ driver = "none"
          /\ driver' = "on"
          /\ conn' = disk
          /\ IF resume_data # None
             THEN /\ urls_to_scrape' = CkUrls(resume_data)
                  /\ current_urls' = CkUrls(resume_data)
                  /\ i' = StartIndex(resume_data)
                  /\ pc' = "loop"
                  /\ series' = [series EXCEPT
                        !.ok = /\ series.ok
                               /\ series.urls = CkUrls(resume_data)
                               /\ series.full = full_update]
             ELSE /\ pc' = "discover"
                  /\ UNCHANGED <<urls_to_scrape, current_urls, i, series>>
          /\ UNCHANGED <<disk, call, issued, file, uiVars, flagVars, resume_data,
                         full_update, current_index, count, skipped, urls,
                         last_count, no_change_count, outcome, processed,
                         exhausted, stop_requested, wrote, file0, failures,
                         item, listing>>
    /\ UNCHANGED site

\* A faulty variant of NoChangeAfter: the count of polls is never reset.
NoChangeAfterNeverReset(current_count, last_count_, no_change_count_) ==
    no_change_count_ + 1

\* get_filament_list: "Verifier si on a trouve de nouveaux elements"
NoChangeAfter(current_count, last_count_, no_change_count_) ==
    IF current_count = last_count_ THEN no_change_count_ + 1 ELSE 0

\* get_filament_list: one pass of the scroll loop.  The page shows some of
\* the keys (seen); reading the page or scrolling it can raise, and does on
\* a driver that stop() has quit.
DiscoverPoll ==
    /\ pc = "discover"
    /\ running /\ no_change_count < MaxNoChange
    /\ \/ \* driver.page_source raises
          /\ no_change_count' = no_change_count + 1
          /\ listing' = [Irregular EXCEPT !.quiet = listing.quiet + 1]
          /\ UNCHANGED <<urls, last_count>>
       \/ /\ driver = "on"
          /\ \E seen \in SUBSET Keys, scrollRaises \in BOOLEAN :
               LET current_count == Cardinality(urls \cup seen)
                   n == NoChangeAfter(current_count, last_count,
                                      no_change_count)
                   new == seen \ urls
                   quiet == IF new # {} THEN 0 ELSE listing.quiet + 1
               IN  /\ urls' = urls \cup seen
                   /\ last_count' = current_count
                   /\ no_change_count' = IF scrollRaises THEN n + 1 ELSE n
                   /\ listing' =
                        IF \/ ~listing.regular
                           \/ scrollRaises
                           \/ new # {} /\ listing.polls # listing.yields
                        THEN [Irregular EXCEPT !.quiet = quiet]
                        ELSE [regular |-> TRUE,
                              polls |-> listing.polls + 1,
                              yields |-> listing.yields
                                            + (IF new # {} THEN 1 ELSE 0),
                              yielded |-> listing.yielded \cup seen,
                              quiet |-> quiet]
    /\ UNCHANGED <<storeVars, file, uiVars, flagVars, pc, driver, resume_data,
                   full_update, current_urls, current_index, urls_to_scrape,
                   i, count, skipped, outcome, processed, exhausted,
                   stop_requested, wrote, series, file0, failures, item>>
    /\ UNCHANGED site

\* get_filament_list returns list(urls); run() gives up on an empty list
\* and else takes it as the sequence to scrape.
DiscoverEnd ==
    /\ pc = "discover"
    /\ ~(running /\ no_change_count < MaxNoChange)
    /\ \/ /\ urls = {}
          /\ outcome' = <<"error", "empty">>
          /\ handled' = FALSE
          /\ pc' = "done"
          /\ UNCHANGED <<urls_to_scrape, current_urls, series>>
       \/ /\ urls # {}
          /\ \E order \in Orders(urls) :
               /\ urls_to_scrape' = order
               /\ current_urls' = order
               /\ series' = [ok |-> TRUE, urls |-> order, base |-> disk,
                             full |-> full_update, below |-> series.below]
          /\ pc' = "loop"
          /\ UNCHANGED <<outcome, handled>>
    /\ listing' = NoListing
    /\ UNCHANGED <<storeVars, file, saved_progress, scrape_btn, pause_btn,
                   stop_btn, flagVars, driver, resume_data, full_update,
                   current_index, i, count, skipped, urls, last_count,
                   no_change_count, processed, exhausted, stop_requested,
                   wrote, file0, failures, item>>
    /\ UNCHANGED site

\* run(): the head of the for loop, "if not self.running: break", and
\* self.current_index = i.
LoopCheck ==
    /\ pc = "loop"
    /\ IF i >= Len(urls_to_scrape)
       THEN /\ exhausted' = TRUE
            /\ pc' = "exit"
            /\ UNCHANGED current_index
       ELSE IF ~running
       THEN /\ pc' = "exit"
            /\ UNCHANGED <<current_index, exhausted>>
       ELSE /\ current_index' = i
            /\ pc' = "item"
            /\ UNCHANGED exhausted
    /\ UNCHANGED <<storeVars, file, uiVars, flagVars, driver, resume_data,
                   full_update, current_urls, urls_to_scrape, i, count,
                   skipped, urls, last_count, no_change_count, outcome,
                   processed, stop_requested, wrote, series, file0, failures,
                   item, listing>>
    /\ UNCHANGED site

\* The outcomes of save_filament in the crawl while the store is available.
CrawlFailPoints == {"none"}

\* The number of save_filament calls of one run in which a statement raises
\* (SpecFail).
MaxFailures == 1

\* The outcomes of save_filament in the crawl when the store can fail: no
\* statement raises, or one of its statements does.
StoreFailures == {"none"} \cup FailPoints

\* A faulty variant of ProcessKey: a page that cannot be fetched is counted
\* and notified like a record.
ProcessKeyCountingFailures(c, url, full_update_, driver_, failAt) ==
    IF ~full_update_ /\ IsEntryComplete(c, url)
    THEN [conn |-> c, commit |-> FALSE, skipped |-> 1, count |-> 0,
          fetched |-> FALSE, got |-> FALSE, data |-> EmptyDict,
          ret |-> None, notified |-> FALSE]
    ELSE IF driver_ # "on" \/ ScrapeFails(SitePage(url))
    THEN [conn |-> c, commit |-> FALSE, skipped |-> 0, count |-> 1,
          fetched |-> TRUE, got |-> FALSE, data |-> EmptyDict,
          ret |-> None, notified |-> TRUE]
    ELSE LET r == SaveFilament(c, ScrapeFilamentPage(url, SitePage(url)),
                               full_update_, failAt)
         IN  [conn |-> r.conn, commit |-> r.commit, skipped |-> 0,
              count |-> 1, fetched |-> TRUE, got |-> TRUE,
              data |-> Put(r.data, "id", r.ret), ret |-> r.ret,
              notified |-> TRUE]

\* A faulty variant of ProcessKey: complete records are skipped in every
\* mode.
ProcessKeyAlwaysSkipping(c, url, full_update_, driver_, failAt) ==
    IF IsEntryComplete(c, url)
    THEN [conn |-> c, commit |-> FALSE, skipped |-> 1, count |-> 0,
          fetched |-> FALSE, got |-> FALSE, data |-> EmptyDict,
          ret |-> None, notified |-> FALSE]
    ELSE IF driver_ # "on" \/ ScrapeFails(SitePage(url))
    THEN [conn |-> c, commit |-> FALSE, skipped |-> 0, count |-> 0,
          fetched |-> TRUE, got |-> FALSE, data |-> EmptyDict,
          ret |-> None, notified |-> FALSE]
    ELSE LET r == SaveFilament(c, ScrapeFilamentPage(url, SitePage(url)),
                               full_update_, failAt)
         IN  [conn |-> r.conn, commit |-> r.commit, skipped |-> 0,
              count |-> 1, fetched |-> TRUE, got |-> TRUE,
              data |-> Put(r.data, "id", r.ret), ret |-> r.ret,
              notified |-> TRUE]

\* run(): the body of the for loop for one key, on the connection's view c:
\* the key is skipped when complete (unless full_update), else its page is
\* fetched (fetched) and, when that gives a record (got), upserted; the
\* record, with its id, is then notified by filament_added and counted.
\* driver_ is the driver's state; a driver that was quit raises in
\* scrape_filament_page.
ProcessKey(c, url, full_update_, driver_, failAt) ==
    IF ~full_update_ /\ IsEntryComplete(c, url)
    THEN [conn |-> c, commit |-> FALSE, skipped |-> 1, count |-> 0,
          fetched |-> FALSE, got |-> FALSE, data |-> EmptyDict,
          ret |-> None, notified |-> FALSE]
    ELSE IF driver_ # "on" \/ ScrapeFails(SitePage(url))
    THEN [conn |-> c, commit |-> FALSE, skipped |-> 0, count |-> 0,
          fetched |-> TRUE, got |-> FALSE, data |-> EmptyDict,
          ret |-> None, notified |-> FALSE]
    ELSE LET r == SaveFilament(c, ScrapeFilamentPage(url, SitePage(url)),
                               full_update_, failAt)
         IN  [conn |-> r.conn, commit |-> r.commit, skipped |-> 0,
              count |-> 1, fetched |-> TRUE, got |-> TRUE,
              data |-> Put(r.data, "id", r.ret), ret |-> r.ret,
              notified |-> TRUE]

\* run(): one pass through the body of the for loop, points being the
\* outcomes of save_filament.  is_entry_complete can raise (the store is
\* unavailable), which escapes the loop to the except clause of run(); what
\* save_filament raises is caught inside it.
\* A faulty variant of ProgressEmit: the index is reported as it is.
ProgressEmitIndex(i_, urls_to_scrape_) == <<i_, Len(urls_to_scrape_)>>

\* run(): self.progress.emit(i + 1, len(urls_to_scrape), status), for a key
\* skipped and at the end of the loop body: current and total.
ProgressEmit(i_, urls_to_scrape_) == <<i_ + 1, Len(urls_to_scrape_)>>

ProcessItemWith(points) ==
    /\ pc = "item"
    /\ LET url == At(urls_to_scrape, i)
           clean == ProcessKey(conn, url, full_update, driver, "none")
           choices == IF clean.got /\ Len(failures) < MaxFailures
                      THEN points ELSE {"none"}
       IN  \/ /\ \E failAt \in choices :
                    LET r == ProcessKey(conn, url, full_update, driver,
                                        failAt)
                    IN  /\ conn' = r.conn
                        /\ disk' = IF r.commit THEN r.conn ELSE disk
                        /\ count' = count + r.count
                        /\ skipped' = skipped + r.skipped
                        /\ failures' =
                              IF failAt = "none" THEN failures
                              ELSE Append(failures,
                                          [i |-> i, url |-> url,
                                           failAt |-> failAt,
                                           durable |-> disk])
                        /\ item' =
                              [op |-> "body", i |-> i, url |-> url,
                               full |-> full_update, before |-> conn,
                               durable |-> disk, raised |-> FALSE,
                               skipped |-> r.skipped = 1,
                               fetched |-> r.fetched, got |-> r.got,
                               data |-> r.data, ret |-> r.ret,
                               notified |-> r.notified, failAt |-> failAt,
                               after |-> r.conn,
                               progress |-> ProgressEmit(i, urls_to_scrape)]
                        /\ series' = [series EXCEPT
                              !.ok = @ /\ failAt = "none"]
              /\ i' = i + 1
              /\ processed' = Append(processed, i)
              /\ pc' = "loop"
              /\ UNCHANGED <<driver, outcome, handled, file>>
           \/ /\ ~full_update
              /\ EmitError("loop", driver)
              /\ conn' = disk
              /\ item' =
                    [op |-> "body", i |-> i, url |-> url,
                     full |-> full_update, before |-> conn,
                     durable |-> disk, raised |-> TRUE, skipped |-> FALSE,
                     fetched |-> FALSE, got |-> FALSE, data |-> EmptyDict,
                     ret |-> None, notified |-> FALSE, failAt |-> "none",
                     after |-> disk, progress |-> <<>>]
              /\ UNCHANGED <<disk, count, skipped, failures, i, processed,
                             series>>
    /\ UNCHANGED <<call, issued, saved_progress, scrape_btn, pause_btn,
                   stop_btn, flagVars, resume_data, full_update,
                   current_urls, current_index, urls_to_scrape, urls,
                   last_count, no_change_count, exhausted, stop_requested,
                   wrote, file0, listing>>
    /\ UNCHANGED site

ProcessItem == ProcessItemWith(CrawlFailPoints)

\* The body of the for loop when statements of save_filament can raise.
ProcessItemFailing == ProcessItemWith(StoreFailures)

\* Index k has been processed by a run of the series the worker belongs to:
\* by the worker, or, when it resumed from the checkpoint on file and k is
\* below that checkpoint's cursor, by the runs before it (series.below: the
\* series whose run wrote the last checkpoint had processed every index
\* below its cursor).
SeriesCovered(k) ==
    \/ \E n \in 1..Len(processed) : processed[n] = k
    \/ resume_data # None /\ series.below /\ k < CkIndex(resume_data)

\* A faulty variant of Exit: the progress is saved whenever the loop was
\* left before the end of the sequence, by a pause or by a stop.
ExitSavingOnBreak ==
    /\ pc = "exit"
    /\ conn' = disk
    /\ driver' = "quit"
    /\ pc' = "done"
    /\ handled' = FALSE
    /\ IF paused_flag \/ ~exhausted
       THEN /\ file' = SaveProgress(file, current_urls, current_index)
            /\ wrote' = (current_urls # <<>>)
            /\ outcome' = <<"paused", current_index, Len(urls_to_scrape)>>
       ELSE /\ file' = ClearProgress(file)
            /\ outcome' = <<"finished", count>>
            /\ UNCHANGED wrote
    /\ UNCHANGED <<disk, call, issued, saved_progress, scrape_btn, pause_btn,
                   stop_btn, flagVars, resume_data, full_update, current_urls,
                   current_index, urls_to_scrape, i, count, skipped, urls,
                   last_count, no_change_count, processed, exhausted,
                   stop_requested, series, file0, failures, item, listing>>
    /\ UNCHANGED site

\* run() after the loop: conn.close(), driver.quit(), then "Gestion de la
\* pause": save_progress() and paused, or clear_progress() and finished.
\* Writing the file can raise, which leaves it truncated and ends in error.
Exit ==
    /\ pc = "exit"
    /\ conn' = disk
    /\ driver' = "quit"
    /\ handled' = FALSE
    /\ IF paused_flag
       THEN \/ /\ file' = SaveProgress(file, current_urls, current_index)
               /\ wrote' = (current_urls # <<>>)
               /\ outcome' = <<"paused", current_index, Len(urls_to_scrape)>>
               /\ pc' = "done"
               /\ series' = [series EXCEPT
                     !.below =
                         IF current_urls = <<>> THEN @
                         ELSE \A k \in 0..(CkIndex(LoadProgress(file')) - 1) :
                                 SeriesCovered(k)]
            \/ /\ current_urls # <<>>
               /\ file' = Truncated
               /\ wrote' = TRUE
               /\ outcome' = <<"error", "save_progress">>
               /\ pc' = AfterError("on")
               /\ UNCHANGED series
       ELSE /\ file' = ClearProgress(file)
            /\ outcome' = <<"finished", count>>
            /\ pc' = "done"
            /\ UNCHANGED <<wrote, series>>
    /\ UNCHANGED <<disk, call, issued, saved_progress, scrape_btn, pause_btn,
                   stop_btn, flagVars, resume_data, full_update, current_urls,
                   current_index, urls_to_scrape, i, count, skipped, urls,
                   last_count, no_change_count, processed, exhausted,
                   stop_requested, file0, failures, item, listing>>
    /\ UNCHANGED site

\* The except clause of run() after error.emit: driver.quit(), exceptions
\* ignored; run() then returns.
QuitDriver ==
    /\ pc = "quit"
    /\ driver' = "quit"
    /\ pc' = "done"
    /\ UNCHANGED <<storeVars, file, uiVars, flagVars, resume_data,
                   full_update, current_urls, current_index, urls_to_scrape,
                   i, count, skipped, urls, last_count, no_change_count,
                   outcome, historyVars>>
    /\ UNCHANGED site

Init ==
    /\ conn = EmptyStore
    /\ disk = EmptyStore
    /\ call = NoCall
    /\ issued = NoneIssued
    /\ InitCrawl
    /\ site \in Sites

Next ==
    \/ ClickScrape
    \/ ClickPauseResume
    \/ ClickStop
    \/ HandleSignal
    \/ Setup
    \/ DiscoverPoll
    \/ DiscoverEnd
    \/ LoopCheck
    \/ ProcessItem
    \/ Exit
    \/ QuitDriver

Spec == Init /\ [][Next]_vars

\* The crawl on a store whose statements can raise, the stop button left
\* alone.
NextFail ==
    \/ ClickScrape
    \/ ClickPauseResume
    \/ HandleSignal
    \/ Setup
    \/ DiscoverPoll
    \/ DiscoverEnd
    \/ LoopCheck
    \/ ProcessItemFailing
    \/ Exit
    \/ QuitDriver

\* The source of SpecFail: the one whose second key has a page.
InitFail == Init /\ site = "incomplete"

SpecFail == InitFail /\ [][NextFail]_vars

(***************************************************************************)
(* Properties of the Record Store (checked under SpecStore).               *)
(***************************************************************************)
\* The call that has just returned found a record for its key.
CallOnExisting ==
    /\ call.op = "save"
    /\ Existing(call.before, Text(<<call.url>>)) # 0

\* The record of that key before and after the call.
RowBefore == call.before.rows[Existing(call.before, Text(<<call.url>>))]

RowAfter == conn.rows[Existing(call.before, Text(<<call.url>>))]

\* A stored field holds data: a non-empty string, an RGB component (0 is the
\* component of a colour such as #000000), a flag that is set.
FieldIsSet(f, v) ==
    IF f \in RgbFields THEN v # None
    ELSE v # None /\ v # Text(<<>>) /\ v # Num(0)

\* A partial record provides a value for a field: a non-empty string, an RGB
\* component, a flag.
Provides(data, f) ==
    /\ Has(data, f)
    /\ data[f] # None /\ data[f] # Text(<<>>)

\* C1: an incremental save_filament on an existing record leaves every
\* merge field that held data before the call unchanged, whatever the partial
\* record holds for it.
C1_MergeNeverRegresses ==
    (CallOnExisting /\ ~call.full_update)
        => \A f \in MergeFields :
              FieldIsSet(f, RowBefore[f]) => RowAfter[f] = RowBefore[f]

\* The RGB triple a hex colour decodes to.
DecodeHex(hex) ==
    LET h == LStripHash(hex[2])
    IN  <<Num(Int16(SubSeq(h, 1, 2))), Num(Int16(SubSeq(h, 3, 4))),
          Num(Int16(SubSeq(h, 5, 6)))>>

HexRgbConsistent(row) ==
    /\ Truthy(row["hex_color"])
          => <<row["rgb_r"], row["rgb_g"], row["rgb_b"]>>
                = DecodeHex(row["hex_color"])
    /\ (\E f \in RgbFields : row[f] = None) => ~Truthy(row["hex_color"])

\* C2: after any sequence of save_filament calls with self-consistent
\* partial records, every stored record with a hex_color has the three RGB
\* components that hex_color decodes to, and a record without RGB has no
\* hex_color.
C2_HexRgbInvariant ==
    \A n \in 1..Len(conn.rows) : HexRgbConsistent(conn.rows[n])

\* C3: a successful incremental save_filament on an existing record stores
\* the partial record's value in every merge field that was empty or absent
\* before and for which the partial record provides a value.
C3_MergePicksUpMissing ==
    (CallOnExisting /\ ~call.full_update /\ call.ret # None)
        => \A f \in MergeFields :
              (~FieldIsSet(f, RowBefore[f]) /\ Provides(call.data, f))
                 => RowAfter[f] = call.data[f]

\* The value full replacement stores for a field: the partial record's, and
\* for a field it lacks, empty (0 for a flag).
FullValue(data, f) ==
    IF Has(data, f) THEN data[f]
    ELSE IF f \in FlagFields THEN Num(0) ELSE None

\* C4: after a successful save_filament with full_update on an existing
\* record, every merge field of the record equals the partial record's value
\* for it, a field the partial record lacks being stored empty (a flag as 0).
C4_FullRefreshOverwrites ==
    (CallOnExisting /\ call.full_update /\ call.ret # None)
        => \A f \in MergeFields : RowAfter[f] = FullValue(call.data, f)

\* C4, witness: a full refresh has replaced a stored name, colour, td_hex and
\* flag by the empty values of a partial record that lacks them.
C4_Witness ==
    /\ CallOnExisting /\ call.full_update /\ call.ret # None
    /\ \A f \in {"name", "hex_color", "rgb_r", "td_hex", "is_glow"} :
          /\ FieldIsSet(f, RowBefore[f]) /\ RowBefore[f] # Num(0)
          /\ ~Has(call.data, f)
          /\ ~Truthy(RowAfter[f])

(***************************************************************************)
(* Properties of the crawl (checked under Spec).                           *)
(***************************************************************************)
RECURSIVE RunFrom(_, _, _, _)
\* The for loop of run() from index k to the end of sequence S with nothing
\* interrupting it: the store it leaves.
RunFrom(c, S, k, full_update_) ==
    IF k >= Len(S) THEN c
    ELSE RunFrom(ProcessKey(c, At(S, k), full_update_, "on", "none").conn,
                 S, k + 1, full_update_)

\* The worker is a resumed run past its set-up (nothing raised in it).
Resumed ==
    /\ resume_data # None /\ pc # "start"
    /\ ~(outcome[1] = "error" /\ outcome[2] \in SetupFailures)

\* The worker has ended as a completed run: its loop reached the end of the
\* sequence, it emitted finished, and no stop was requested.
Completed ==
    /\ pc = "done" /\ exhausted /\ ~stop_requested
    /\ outcome[1] = "finished"

\* C5: a run resumed from checkpoint {S, c} iterates over S and processes
\* the indices c, c+1, ... in order, so none before c; when it completes it
\* has processed every index from c to the end, and the Record Store equals
\* the one an uninterrupted run over S in the same mode leaves when started
\* from the store the first run of the series found.
C5_ResumeContinuity ==
    /\ Resumed =>
          /\ urls_to_scrape = CkUrls(resume_data)
          /\ \A k \in 1..Len(processed) :
                processed[k] = CkIndex(resume_data) + k - 1
    /\ (Resumed /\ Completed /\ series.ok) =>
          /\ Len(processed) = Len(CkUrls(resume_data)) - CkIndex(resume_data)
          /\ disk = RunFrom(series.base, series.urls, 0, series.full)

\* C5, witness: a run resumed at cursor 1 or later has completed after
\* fetching a key, the store holding a record per key.
C5_Witness ==
    /\ Resumed /\ Completed /\ series.ok
    /\ CkIndex(resume_data) >= 1
    /\ count >= 1
    /\ Len(disk.rows) = Len(series.urls)
    /\ Len(series.urls) >= 2

\* The worker has ended by emitting paused.
Paused == pc = "done" /\ outcome[1] = "paused"

Range(seq) == {seq[k] : k \in 1..Len(seq)}

\* C6: when a paused run has written checkpoint {S, c}, it has processed
\* every index below c that was its to process, and has not processed c.
C6_CursorIsNextKey ==
    (Paused /\ LoadProgress(file) # None) =>
        /\ \A j \in 0..(CkIndex(LoadProgress(file)) - 1) :
              (resume_data = None \/ j >= CkIndex(resume_data))
                 => j \in Range(processed)
        /\ CkIndex(LoadProgress(file)) \notin Range(processed)

\* C7: whenever a run has emitted paused, load_progress() returns that
\* run's sequence and cursor, the ones the paused signal reports.
C7_PausePreservesResumability ==
    Paused =>
        /\ LoadProgress(file) = Checkpoint(urls_to_scrape, current_index)
        /\ outcome = <<"paused", CkIndex(LoadProgress(file)),
                       Len(CkUrls(LoadProgress(file)))>>

\* C7, witness: a resumed run that was paused after it had processed a key.
C7_Witness ==
    /\ Paused /\ resume_data # None
    /\ processed # <<>>
    /\ CkIndex(LoadProgress(file)) >= 1

\* C8: a run for which stop was requested ends without having written the
\* progress file and without emitting paused.
C8_StopDiscardsResumability ==
    (pc = "done" /\ stop_requested) => (~wrote /\ outcome[1] # "paused")

\* C9: a run whose loop has processed the last key of its sequence ends
\* with no progress file and with finished carrying its count of fetched
\* records.
C9_Completion ==
    (pc = "done" /\ exhausted)
        => (file = NoFile /\ outcome = <<"finished", count>>)

\* C10: finished is emitted only by a run whose loop reached the end of its
\* sequence.
C10_FinishedOnlyAtEnd == outcome[1] = "finished" => exhausted

\* The worker has ended by emitting error.
Failed == pc = "done" /\ outcome[1] = "error"

\* The diagnostics of a run that failed before or inside its loop: the
\* driver, the connection or the list page raised, discovery returned no
\* key, an exception escaped the loop.
RunFailures == SetupFailures \cup {"empty", "loop"}

\* C11: a run that ends by emitting error because the driver could not be
\* started, the list page could not be rendered, discovery returned no key
\* or an exception escaped the loop has not written the progress file, and
\* the file is as the run found it.
C11_FailedLeavesCheckpoint ==
    (Failed /\ outcome[2] \in RunFailures) => (file = file0 /\ ~wrote)

\* C11, witness: a resumed run has processed a key and then failed inside
\* its loop, the checkpoint it was resumed from still being in the file.
C11_Witness ==
    /\ Failed /\ outcome[2] = "loop"
    /\ resume_data # None /\ processed # <<>>
    /\ file = file0 /\ LoadProgress(file) = resume_data

\* The last pass through the loop body fetched the key's page and
\* scrape_filament_page gave no record.
FetchFailed == item.op = "body" /\ item.fetched /\ ~item.got

\* C12: when scrape_filament_page has failed for key S[i], the pass wrote
\* nothing to the Record Store, emitted no filament_added, the loop variable
\* went on to i+1, and the run did not end in error for it.
C12_ItemFailureAbsorbed ==
    FetchFailed =>
        /\ item.after = item.before
        /\ ~item.notified
        /\ i = item.i + 1
        /\ ~(outcome[1] = "error" /\ outcome[2] \in RunFailures)

\* C12, witness: a run that nobody stopped has finished after the page of
\* its last key raised, having fetched a record before.
C12_Witness ==
    /\ FetchFailed /\ ScrapeFails(SitePage(item.url))
    /\ ~stop_requested /\ outcome[1] = "finished"
    /\ item.i >= 1 /\ count >= 1

\* The record of a key in a store: its row and its tags, <<>> when the store
\* has no record for the key.
RecordOf(c, url) ==
    LET e == Existing(c, Text(<<url>>))
    IN  IF e = 0 THEN <<>> ELSE <<c.rows[e], c.tags[e]>>

\* The worker has ended with its loop left in the normal way (finished or
\* paused).
LoopLeft == pc = "done" /\ outcome[1] \in {"finished", "paused"}

\* C13: when a statement of save_filament raised for key K, the loop went
\* on to the next key, and once the run has ended the committed record and
\* tags of K are those committed before the failed call.
C13_PersistenceFailureAbsorbed ==
    \A n \in 1..Len(failures) :
        /\ failures[n].i \in Range(processed)
        /\ LoopLeft =>
              RecordOf(disk, failures[n].url)
                 = RecordOf(failures[n].durable, failures[n].url)

\* The store has no record for the key, or one whose name, manufacturer or
\* hex_color is empty.
Incomplete(c, url) ==
    \/ RecordOf(c, url) = <<>>
    \/ \E f \in {"name", "manufacturer", "hex_color"} :
          \/ RecordOf(c, url)[1][f] = None
          \/ RecordOf(c, url)[1][f] = Text(<<>>)

\* The last pass through the loop body, made in incremental mode, in which
\* is_entry_complete returned.
IncrementalPass == item.op = "body" /\ ~item.full /\ ~item.raised

\* C14: in incremental mode the key of a pass is fetched exactly when the
\* store has no record for it or an incomplete one; a key with a complete
\* record is neither fetched nor written, the skip counter is incremented
\* and the loop variable goes on to the next index.
C14_SkipDecision ==
    IncrementalPass =>
        /\ item.fetched <=> Incomplete(item.before, item.url)
        /\ ~Incomplete(item.before, item.url) =>
              /\ item.skipped /\ skipped >= 1
              /\ item.after = item.before
              /\ i = item.i + 1

\* C14, witness: an incremental run has skipped a complete record and then
\* fetched a key whose record was incomplete.
C14_Witness ==
    /\ IncrementalPass /\ item.fetched /\ item.got
    /\ RecordOf(item.before, item.url) # <<>>
    /\ skipped >= 1

\* The last pass through the loop body, made in full-refresh mode.
FullPass == item.op = "body" /\ item.full

\* C15: in full-refresh mode the key of every pass is fetched, whether or
\* not its record is complete; when extraction gave a record and
\* save_filament returned an id, every merge field of the key's record is
\* the extracted one (empty, or 0 for a flag, when the page lacks it); and
\* the skip counter of the run stays 0.
C15_FullRefreshNeverSkips ==
    /\ FullPass =>
          /\ item.fetched /\ ~item.skipped
          /\ (item.got /\ item.ret # None) =>
                \A f \in MergeFields :
                    RecordOf(item.after, item.url)[1][f]
                       = FullValue(item.data, f)
    /\ (full_update /\ pc # "none") => skipped = 0

\* C15, witness: a full-refresh run has fetched and replaced a record that
\* was complete, after another key.
C15_Witness ==
    /\ FullPass /\ item.got /\ item.ret # None
    /\ ~Incomplete(item.before, item.url)
    /\ item.i >= 1

\* The store an incremental crawl over the sequence S leaves when it runs to
\* completion from store c.
Crawl(c, S) == RunFrom(c, S, 0, FALSE)

\* No two records of the store have the same key.
NoDuplicate(c) ==
    \A a, b \in 1..Len(c.rows) : a # b => c.rows[a]["url"] # c.rows[b]["url"]

\* C16: from every store that save_filament calls can build, and for every
\* order of the source's keys, an incremental crawl run to completion twice
\* leaves the same records, field values and tags as the crawl run once,
\* with one record per key.
C16_IdempotentReRun ==
    \A S \in Orders(Keys) :
        /\ Crawl(Crawl(conn, S), S) = Crawl(conn, S)
        /\ NoDuplicate(conn) => NoDuplicate(Crawl(Crawl(conn, S), S))

\* C16, witness: the store holds an incomplete record for the first key and
\* a record for the second; the crawl changes the store, and the second
\* crawl changes nothing more.
C16_Witness ==
    /\ Len(conn.rows) >= 2
    /\ Incomplete(conn, "A") /\ RecordOf(conn, "A") # <<>>
    /\ \E S \in Orders(Keys) :
          /\ Crawl(conn, S) # conn
          /\ Crawl(Crawl(conn, S), S) = Crawl(conn, S)

\* The scroll loop of get_filament_list has ended without a cancellation.
ListingEnded == pc = "discover" /\ running /\ no_change_count >= MaxNoChange

\* C17: with no cancellation and a source of which no poll raises and that
\* yields a new key on each of its first k polls and none afterwards, the
\* scroll loop of get_filament_list makes at most k+5 polls, has made
\* exactly k+5 when it ends, and has then collected exactly the keys
\* yielded; the list run() takes from it holds each of them once.
C17_DiscoveryConvergence ==
    /\ (pc = "discover" /\ listing.regular) =>
          listing.polls <= listing.yields + 5
    /\ (ListingEnded /\ listing.regular) =>
          /\ listing.polls = listing.yields + 5
          /\ urls = listing.yielded
    /\ (pc = "loop" /\ resume_data = None) =>
          /\ Range(urls_to_scrape) = urls
          /\ Len(urls_to_scrape) = Cardinality(urls)

\* C17, witness: the source yielded a new key on each of two polls and none
\* on the five after them, and the loop has ended.
C17_Witness ==
    /\ ListingEnded /\ listing.regular
    /\ listing.yields = 2 /\ listing.polls = 7
    /\ Cardinality(urls) >= 2

\* C18: whenever the worker has ended after its driver was started,
\* driver.quit() has been called.
C18_DriverTornDown == (pc = "done" /\ driver # "none") => driver = "quit"

\* C19: a pause or stop request that arrives while a key is being processed
\* does not change the processing of that key: every pass through the loop
\* body fetches (or skips) the key and upserts its record as the pass does
\* when no request is made, that is, with the driver running.
C19_CooperativeCancellation ==
    (item.op = "body" /\ ~item.raised) =>
        LET r == ProcessKey(item.before, item.url, item.full, "on",
                            item.failAt)
        IN  /\ item.got = r.got
            /\ item.notified = r.notified
            /\ item.after = r.conn

\* load_progress() has just returned, called after the call of operation op.
LoadedAfter(op) == call.op = "load_progress" /\ call.after.op = op

\* C20: load_progress() after a save_progress() that wrote a non-empty key
\* sequence S and cursor c returns S in the same order and c;
\* load_progress() after clear_progress() returns None.
C20_CheckpointRoundTrip ==
    /\ (/\ LoadedAfter("save_progress")
        /\ call.after.returned /\ call.after.urls # <<>>) =>
          /\ saved_progress # None
          /\ CkUrls(saved_progress) = call.after.urls
          /\ CkIndex(saved_progress) = call.after.index
    /\ LoadedAfter("clear_progress") => saved_progress = None

\* C20, witness: load_progress() has returned the two different keys and
\* the cursor 1 that save_progress() wrote over an earlier checkpoint.
C20_Witness ==
    /\ LoadedAfter("save_progress") /\ call.after.returned
    /\ Len(call.after.urls) = 2 /\ call.after.urls[1] # call.after.urls[2]
    /\ call.after.index = 1
    /\ saved_progress = Checkpoint(call.after.urls, 1)

CallOnAbsent ==
    /\ call.op = "save"
    /\ Existing(call.before, Text(<<call.url>>)) = 0
    /\ call.ret # None

\* C22: a successful save_filament for a key that has no record adds one
\* record, whose key is the partial record's and whose every merge field is
\* the partial record's value (None for a field it lacks, 0 for a flag); the
\* store is the same whether full_update is set or not.
C22_InsertWhenAbsent ==
    CallOnAbsent =>
        /\ Len(conn.rows) = Len(call.before.rows) + 1
        /\ conn.rows[Len(conn.rows)]["url"] = Text(<<call.url>>)
        /\ \A f \in MergeFields :
              conn.rows[Len(conn.rows)][f] = FullValue(call.data, f)
        /\ \A n \in 1..Len(call.before.rows) :
              conn.rows[n] = call.before.rows[n]
        /\ \A mode \in BOOLEAN :
              SaveFilament(call.before, call.data, mode, "none").conn = conn

\* C22, witness: an incremental call has inserted, after another record, a
\* partial record that lacks a name, a colour and every flag.
C22_Witness ==
    /\ CallOnAbsent /\ ~call.full_update
    /\ Len(call.before.rows) >= 1
    /\ \A f \in {"name", "hex_color", "rgb_r"} \cup FlagFields :
          ~Has(call.data, f)
    /\ conn.rows[Len(conn.rows)]["name"] = None
    /\ conn.rows[Len(conn.rows)]["is_glow"] = Num(0)

\* C23: every save_filament call that returns an id for a key returns the
\* id the first call for that key returned, whatever the modes of the calls
\* and the calls made for other keys in between; two keys never have the
\* same id.
C23_StableIdentifier ==
    /\ (call.op = "save" /\ call.ret # None) =>
          call.ret = Num(issued[call.url])
    /\ \A a, b \in Urls :
          (a # b /\ issued[a] # 0) => issued[a] # issued[b]

\* C23, witness: a call in full-refresh mode has returned the id 1 of a key
\* that was inserted before another key was.
C23_Witness ==
    /\ CallOnExisting /\ call.full_update
    /\ call.ret = Num(1) /\ issued[call.url] = 1
    /\ \E other \in Urls : issued[other] = 2

\* The id of the record of the call that has just returned an id.
CallId == call.ret[2]

\* C24: after a successful save_filament, in either mode and whether or not
\* the key had a record, the tags stored for the record are exactly the
\* partial record's tags, in its order, none of the tags stored before
\* remaining; the tags of the other records are as they were.
C24_TagsFullyReplaced ==
    (call.op = "save" /\ call.ret # None) =>
        /\ conn.tags[CallId] = GetOr(call.data, "tags", <<>>)
        /\ \A n \in 1..Len(call.before.tags) :
              n # CallId => conn.tags[n] = call.before.tags[n]

\* C24, witness: an incremental call with a partial record of one tag has
\* replaced the two other tags stored for its record.
C24_Witness ==
    /\ CallOnExisting /\ ~call.full_update /\ call.ret # None
    /\ Len(call.before.tags[CallId]) = 2
    /\ Len(conn.tags[CallId]) = 1
    /\ \A n \in 1..2 : call.before.tags[CallId][n] # conn.tags[CallId][1]

(***************************************************************************)
(* Properties of the colour lookup (checked under SpecColour).             *)
(***************************************************************************)
\* The hex digits, with the letters in upper or in lower case.
HexDigits(letters) ==
    <<"0", "1", "2", "3", "4", "5", "6", "7", "8", "9">>
    \o (IF letters = "upper" THEN <<"A", "B", "C", "D", "E", "F">>
        ELSE <<"a", "b", "c", "d", "e", "f">>)

\* The two digits that encode a component.
ByteToHex(v, letters) ==
    <<HexDigits(letters)[(v \div 16) + 1], HexDigits(letters)[(v % 16) + 1]>>

\* The six digits that encode a triple.
RgbToHex(t, letters) ==
    ByteToHex(t[1], letters) \o ByteToHex(t[2], letters)
        \o ByteToHex(t[3], letters)

\* The records whose colour the scraper decoded from the page's hex string.
Coloured == {n \in 1..Len(disk.rows) : disk.rows[n]["hex_color"] # None}

RowTriple(row) == <<row["rgb_r"][2], row["rgb_g"][2], row["rgb_b"][2]>>

\* C25: there is one encoding of triples as six hex digits (its letters in
\* upper or in lower case) such that every hex string decoded, by the
\* scraper for a record or by find_closest_color_hex, is the encoding of the
\* triple it was decoded to, and such that every triple find_closest_color
\* is called with is what its encoding decodes to.
C25_HexRgbRoundTrip ==
    \E letters \in {"upper", "lower"} :
        /\ \A n \in Coloured :
              RgbToHex(RowTriple(disk.rows[n]), letters)
                 = LStripHash(disk.rows[n]["hex_color"][2])
        /\ (call.op = "find_closest_color_hex" /\ call.ret # ValueError) =>
              RgbToHex(call.rgb, letters) = LStripHash(call.hex_color)
        /\ call.op = "find_closest_color" =>
              HexTriple(RgbToHex(<<call.r, call.g, call.b>>, letters))
                 = <<call.r, call.g, call.b>>

\* The ids of the loaded filaments that have all three RGB components.
WithRgb(filaments) ==
    {n \in 1..Len(filaments) :
        \A f \in RgbFields : filaments[n][3][f] # None}

\* The squared Euclidean distance from the triple (r, g, b) to the colour of
\* a filament that has one.
SquaredDistance(filament, r, g, b) ==
    LET dr == r - filament[3]["rgb_r"][2]
        dg == g - filament[3]["rgb_g"][2]
        db == b - filament[3]["rgb_b"][2]
    IN  dr * dr + dg * dg + db * db

\* C26: find_closest_color(r, g, b) returns None exactly when no loaded
\* filament has all three RGB components; else it returns a loaded filament
\* that has them, whose squared distance to (r, g, b) is minimal among
\* those, and which is the first in id order of the filaments at that
\* distance.
C26_NearestColour ==
    call.op = "find_closest_color" =>
        LET fs == call.filaments
            d(n) == SquaredDistance(fs[n], call.r, call.g, call.b)
        IN  /\ call.ret = None <=> WithRgb(fs) = {}
            /\ call.ret # None =>
                  /\ call.ret[2] \in WithRgb(fs)
                  /\ call.ret = fs[call.ret[2]]
                  /\ \A m \in WithRgb(fs) :
                        /\ d(call.ret[2]) <= d(m)
                        /\ d(m) = d(call.ret[2]) => call.ret[2] <= m

\* C26, witness: two loaded filaments of different colours are at the same
\* distance from the triple, and the first of them is returned.
C26_Witness ==
    /\ call.op = "find_closest_color" /\ call.ret # None
    /\ Len(call.filaments) >= 2
    /\ call.ret[2] = 1
    /\ 2 \in WithRgb(call.filaments)
    /\ call.filaments[1][3]["hex_color"] # call.filaments[2][3]["hex_color"]
    /\ SquaredDistance(call.filaments[1], call.r, call.g, call.b)
          = SquaredDistance(call.filaments[2], call.r, call.g, call.b)
    /\ SquaredDistance(call.filaments[1], call.r, call.g, call.b) > 0

(***************************************************************************)
(* Properties of the checkpoints the crawl writes (checked under Spec).    *)
(***************************************************************************)
\* C27: whatever runs were started, resumed, paused and stopped, the cursor
\* of the checkpoint in the progress file is at least 0 and at most the
\* length of its key sequence, and so is the cursor a resumed run was given.
C27_CursorBounds ==
    /\ LoadProgress(file) # None =>
          /\ 0 <= CkIndex(LoadProgress(file))
          /\ CkIndex(LoadProgress(file)) <= Len(CkUrls(LoadProgress(file)))
    /\ resume_data # None =>
          /\ 0 <= CkIndex(resume_data)
          /\ CkIndex(resume_data) <= Len(CkUrls(resume_data))

\* C27, witness: a run resumed from a checkpoint has been paused in turn and
\* has written a checkpoint whose cursor is that of the last key.
C27_Witness ==
    /\ pc = "done" /\ wrote /\ resume_data # None
    /\ LoadProgress(file) # None
    /\ CkIndex(LoadProgress(file)) = Len(CkUrls(LoadProgress(file))) - 1
    /\ CkIndex(LoadProgress(file)) > CkIndex(resume_data)

\* C28: the key sequence of a checkpoint written by a run that discovered
\* its keys is the list of a discovery that ended by convergence, the
\* no-change count having reached max_no_change, and never the list of a
\* discovery that a pause or stop request ended.
C28_CheckpointHoldsFullList ==
    (pc = "done" /\ wrote /\ resume_data = None
        /\ LoadProgress(file) # None) =>
        no_change_count >= MaxNoChange

\* C29: the progress file is written only by a run on which pause() was
\* called, when it leaves its loop: every step that changes the file either
\* removes it or is the end of a run whose paused_flag is set.
C29_CheckpointOnlyByPause ==
    [][file' # file => (file' = NoFile \/ (paused_flag /\ pc = "exit"))]_vars

\* C29, witness: a run that was paused, and stopped as well, has replaced
\* the checkpoint it found by its own.
C29_Witness ==
    /\ pc = "done" /\ paused_flag /\ stop_requested
    /\ file0 # NoFile /\ LoadProgress(file) # None
    /\ file # file0

(***************************************************************************)
(* Properties of the discovery loop (checked under Spec).                  *)
(***************************************************************************)
\* C30: a poll of the scroll loop of get_filament_list in which the set of
\* keys grew leaves the no-change count at 0, and a poll after which the
\* loop ends without a cancellation is the fifth or later of the polls made
\* since the set last grew.  Polls that raise (reading the page, scrolling
\* it) are polls like the others.
C30_FiveStrikes ==
    [][pc = "discover" =>
          /\ urls' # urls => no_change_count' = 0
          /\ ListingEnded' => listing'.quiet >= MaxNoChange]_vars

(***************************************************************************)
(* Properties of the entry into the loop (checked under Spec).             *)
(***************************************************************************)
\* The worker is in or past its for loop.
Iterating == pc \in {"loop", "item", "exit"}

\* C31: a run given resume data {S, c} never polls the list page, iterates
\* over S as it is, and the first key it processes is S[c]; a run given none
\* iterates over a list of the keys its discovery collected, and the first
\* index it processes is 0.
C31_ResumeEntry ==
    /\ resume_data # None =>
          /\ pc # "discover"
          /\ listing = NoListing /\ urls = {} /\ no_change_count = 0
          /\ Iterating => urls_to_scrape = CkUrls(resume_data)
          /\ processed # <<>> => processed[1] = CkIndex(resume_data)
          /\ (item.op = "body" /\ item.i = CkIndex(resume_data)) =>
                item.url = At(CkUrls(resume_data), CkIndex(resume_data))
    /\ (resume_data = None /\ Iterating) =>
          /\ urls # {} /\ Range(urls_to_scrape) = urls
          /\ processed # <<>> => processed[1] = 0

\* C31, witness: a run resumed at cursor 1 has processed its first key, the
\* second of the sequence, and nothing else yet.
C31_Witness ==
    /\ resume_data # None /\ CkIndex(resume_data) = 1
    /\ processed = <<1>> /\ pc = "loop"
    /\ item.op = "body" /\ ~item.raised /\ item.i = 1
    /\ item.url = CkUrls(resume_data)[2]

\* A value of the emitted record and a stored value are the same; an empty
\* value (None, '', 0, or a key the record lacks) is the same as another.
SameValue(emitted, stored) ==
    \/ emitted = stored
    \/ (emitted = Absent \/ ~Truthy(emitted)) /\ ~Truthy(stored)

\* C32: every filament_added emitted for a key follows an upsert that
\* succeeded (save_filament returned an id), and every merge field of the
\* record it carries is the value stored for the key after the upsert.
C32_NotificationCarriesMerged ==
    (item.op = "body" /\ item.notified) =>
        /\ item.ret # None
        /\ \A f \in MergeFields :
              SameValue(item.data[f], RecordOf(item.after, item.url)[1][f])

\* The tags a save_filament call for the key carries: those of its page.
CallTags(url) == GetOr(ScrapeFilamentPage(url, SitePage(url)), "tags", <<>>)

\* C33: when a statement of save_filament raised for key K, the durable
\* store never holds a part of that call: the committed record and tags of K
\* are those committed before the call, or the committed tags of K are the
\* call's tags (insert or update, tag deletion and tag insertion together).
C33_OneTransaction ==
    \A n \in 1..Len(failures) :
        LET now == RecordOf(disk, failures[n].url)
            before == RecordOf(failures[n].durable, failures[n].url)
        IN  now # before => now[2] = CallTags(failures[n].url)

\* C34: when a run resumed from checkpoint {S, c} has emitted paused and
\* written a checkpoint, that checkpoint holds S and a cursor not below c.
C34_NoProgressLost ==
    (resume_data # None /\ Paused /\ LoadProgress(file) # None) =>
        /\ CkUrls(LoadProgress(file)) = CkUrls(resume_data)
        /\ CkIndex(LoadProgress(file)) >= CkIndex(resume_data)

\* What the worker has emitted through progress and filament_added.
Emissions == <<item, processed, count, skipped>>

\* C35: a worker emits a terminal outcome (finished, paused or error) only
\* when none has been emitted in its run; every worker that ends has emitted
\* one; and after it the worker emits nothing more (no outcome, no progress,
\* no record).
C35_OneOutcome ==
    [][/\ outcome' # outcome =>
             \/ /\ outcome = NoOutcome /\ IsRunning
                /\ outcome'[1] \in {"finished", "paused", "error"}
             \/ outcome' = NoOutcome /\ pc' = "start"
       /\ (pc # "done" /\ pc' = "done") => outcome' # NoOutcome
       /\ (outcome # NoOutcome /\ outcome' # NoOutcome) =>
             /\ outcome' = outcome
             /\ Emissions' = Emissions]_vars

C35_Witness ==
    /\ pc = "done" /\ outcome[1] = "error"
    /\ item.op = "body" /\ item.raised /\ processed # <<>>

\* C36: when a run that was not stopped emits finished, every index of its
\* sequence has been processed (skipped as complete, or fetched) by the run
\* itself or, when it was resumed, by an earlier run of its series.
C36_SeriesCoverage ==
    (pc = "done" /\ outcome[1] = "finished" /\ ~stop_requested) =>
        \A k \in 0..(Len(urls_to_scrape) - 1) : SeriesCovered(k)

\* C36, witness: a resumed run has finished a sequence of two keys after
\* processing only the second; the first was processed before the pause.
C36_Witness ==
    /\ pc = "done" /\ outcome[1] = "finished" /\ ~stop_requested
    /\ resume_data # None /\ Len(urls_to_scrape) = 2
    /\ processed = <<1>> /\ CkIndex(resume_data) = 1 /\ count = 1

\* C37: the store, as the connection sees it and as committed, has at most
\* one record per source URL, whatever calls failed; and a save_filament call
\* for one key leaves the record and the tags of every other key as the
\* connection saw them before the call.
C37_OneRecordPerKey ==
    /\ NoDuplicate(conn) /\ NoDuplicate(disk)
    /\ call.op = "save" =>
          \A url \in Urls \ {call.url} :
              RecordOf(conn, url) = RecordOf(call.before, url)

\* C37, witness: with another key's record in the store, a call on a stored
\* key has raised after its first writes, which the connection holds
\* uncommitted.
C37_Witness ==
    /\ call.op = "save" /\ call.failAt \in {"delete_tags", "insert_tags"}
    /\ Len(call.before.rows) = 2 /\ Existing(call.before, Text(<<call.url>>)) # 0
    /\ conn # call.before /\ conn # disk
    /\ RecordOf(conn, "B") # <<>> /\ RecordOf(conn, "A") # <<>>

\* C38: a step that starts a worker (start_scraping: its thread is at the
\* start of run(), running and not paused) is taken only when no worker
\* started before is still executing run().
C38_SingleWorker ==
    [][(pc' = "start" /\ running' /\ ~paused_flag') => ~IsRunning]_vars

\* C39: find_n_closest_colors(r, g, b, n) with n >= 0 returns at most n
\* pairs, min(n, m) of them when m loaded filaments have all three RGB
\* components; each pair is one of those filaments with its distance to
\* (r, g, b), no filament twice; the distances do not decrease along the
\* list and no filament left out is nearer than one returned; and when the
\* list is not empty its first filament is the one find_closest_color
\* returns.
C39_NNearest ==
    (call.op = "find_n_closest_colors" /\ call.n >= 0) =>
        LET fs == call.filaments
            ret == call.ret
            m == Cardinality(WithRgb(fs))
            d(k) == SquaredDistance(fs[k], call.r, call.g, call.b)
            ids == {ret[k][1][2] : k \in 1..Len(ret)}
        IN  /\ Len(ret) <= call.n
            /\ Len(ret) = IF call.n < m THEN call.n ELSE m
            /\ \A k \in 1..Len(ret) :
                  /\ ret[k][1][2] \in WithRgb(fs)
                  /\ ret[k][1] = fs[ret[k][1][2]]
                  /\ ret[k][2] = Float(d(ret[k][1][2]))
            /\ Cardinality(ids) = Len(ret)
            /\ \A k \in 1..(Len(ret) - 1) : ret[k][2][2] <= ret[k + 1][2][2]
            /\ \A k \in ids, out \in WithRgb(fs) \ ids : d(k) <= d(out)
            /\ ret # <<>> =>
                  ret[1][1] = FindClosestColor(fs, call.r, call.g, call.b)

\* C39, witness: of two loaded filaments of different colours the second is
\* the nearer, and both are returned, the second first.
C39_Witness ==
    /\ call.op = "find_n_closest_colors" /\ call.n = 2
    /\ Len(call.ret) = 2
    /\ call.ret[1][1][2] = 2 /\ call.ret[2][1][2] = 1
    /\ call.ret[1][2][2] < call.ret[2][2][2]

\* The index a run starts at.
Start == IF resume_data # None THEN CkIndex(resume_data) ELSE 0

\* C40: in every run the indices processed are Start, Start + 1, ... in
\* order, the loop variable being the next one, and no key is processed
\* twice; every pass through the loop body that did not raise emitted
\* progress with current = index + 1 and 1 <= current <= total; and no step
\* of the iteration changes the sequence.
C40_CursorIncreasing ==
    [][/\ \A k \in 1..Len(processed') : processed'[k] = Start' + k - 1
       /\ Iterating' => i' = Start' + Len(processed')
       /\ \A a, b \in 1..Len(processed') :
             a # b => At(urls_to_scrape', processed'[a])
                         # At(urls_to_scrape', processed'[b])
       /\ (item'.op = "body" /\ ~item'.raised) =>
             /\ item'.i = processed'[Len(processed')]
             /\ item'.progress = <<item'.i + 1, Len(urls_to_scrape')>>
             /\ 1 <= item'.progress[1]
             /\ item'.progress[1] <= item'.progress[2]
       /\ (Iterating /\ Iterating') => urls_to_scrape' = urls_to_scrape]_vars

\* C40, witness: a run has processed the two keys of its sequence from
\* index 0 on, skipped the second as complete and emitted progress 2 of 2
\* for it.
C40_Witness ==
    /\ resume_data = None /\ processed = <<0, 1>> /\ pc = "loop"
    /\ item.op = "body" /\ item.skipped /\ item.progress = <<2, 2>>

====
